---- MODULE Spec2Model ----
(***************************************************************************)
(* A model of filter_rspamd.go: the control loop of main, the per-event    *)
(* handlers, and the scan goroutine started by dataOutput.                 *)
(*                                                                         *)
(* Go strings are TLA+ strings; a Go slice is a sequence whose element i   *)
(* (0-based) is element i+1 here; a Go map is a function whose DOMAIN is   *)
(* the set of keys present; a nil map or nil channel is the reference 0.   *)
(* The message text held by strings.Builder is the sequence of the lines   *)
(* written to it, each line standing for "line\n".                         *)
(***************************************************************************)
EXTENDS Integers, Sequences, FiniteSets, TLC

\* ------------------------------------------------------------------ bounds
MaxEvents == 4      \* lines read from stdin under the unconstrained host
MaxPayload == 2     \* lines held by one session's payload
MaxScans == 2       \* goroutines started by dataOutput
MaxConnects == 2    \* session objects (and control maps) ever allocated

\* ------------------------------------------------------------------ inputs
SessionIds == {"s1", "s2"}
Token == "tok"

HdrLine == "Subject: hi"
BodyLine == "body"
Marker == "."
SigHdrLine == "DKIM-Signature: old"
CrLine == "body\r"
Contents == {HdrLine, "", BodyLine, Marker, SigHdrLine}

Report(ev, sid, rest) == <<"report", "0.5", "0", "smtp-in", ev, sid>> \o rest
Filter(ev, sid, rest) == <<"filter", "0.5", "0", "smtp-in", ev, sid>> \o rest

\* The lines the mail agent may write for session sid.
LinesOf(sid) ==
    {Report("link-connect", sid, <<"mx.example", "pass", "192.0.2.1:25", "x">>),
     Report("link-connect", sid, <<"", "pass", "local", "x">>),
     Report("link-disconnect", sid, <<>>),
     Report("link-identify", sid, <<"mx.example">>),
     Report("tx-begin", sid, <<"Q1">>),
     Report("tx-mail", sid, <<"Q1", "a@x", "ok">>),
     Report("tx-mail", sid, <<"Q1", "a@x", "permfail">>),
     Report("tx-rcpt", sid, <<"Q1", "b@y", "ok">>),
     Report("tx-rcpt", sid, <<"Q1", "b@y", "permfail">>),
     Report("tx-data", sid, <<"Q1", "ok">>),
     Report("tx-data", sid, <<"Q1", "tempfail">>),
     Report("tx-commit", sid, <<"Q1", "42">>),
     Report("tx-rollback", sid, <<"Q1">>),
     Report("tx-envelope", sid, <<"Q1", "e1">>),
     Filter("commit", sid, <<Token>>)}
    \cup {Filter("data-line", sid, <<Token, c>>) : c \in Contents}
    \cup {Filter("data-line", sid, <<Token, CrLine, "b">>)}

Lines == UNION {LinesOf(sid) : sid \in SessionIds}

\* ------------------------------------------------------------------- state
VARIABLES
    sessions,   \* main's map sessions: id -> session object
    maps,       \* the control maps allocated so far (a session's control
                \* field and a goroutine's headers refer to one by index)
    scans,      \* the goroutines started by dataOutput, one per channel
    loop,       \* where the control loop of main is
    event, id,  \* main's event and id: fields[4] and fields[5] of the line
                \* read last ("" before the first)
    out,        \* the lines written to stdout after "register|ready"
    nread,      \* how many lines stdin.Scan has returned
    agent       \* the mail agent: the line it wrote last, how many end
                \* markers and commits it has written, the message lines it
                \* has written since the last end marker and the messages it
                \* has ended (kept only by the agent that follows the SMTP
                \* dialogue)

vars == <<sessions, maps, scans, loop, event, id, out, nread, agent>>

\* ----------------------------------------------------------------- helpers
\* fields[i] of the Go slice (0-based).
Arg(line, i) == line[i + 1]
Event(line) == Arg(line, 4)
Id(line) == Arg(line, 5)

\* m[k] = v on a Go map.
Put(m, k, v) == [x \in DOMAIN m \cup {k} |-> IF x = k THEN v ELSE m[x]]
EmptyMap == [x \in {} |-> ""]

\* strings.Split(laddr, ":")[0] over the addresses of LinesOf.
SplitColonFirst(laddr) ==
    CASE laddr = "192.0.2.1:25" -> "192.0.2.1"
      [] OTHER -> laddr

\* The names main registers a handler for; registry[event].fn is nil for
\* link-disconnect and for every name that is not a key of registry.
Registered ==
    {"link-connect", "link-identify", "tx-begin", "tx-data", "tx-mail",
     "tx-rcpt", "tx-commit", "tx-rollback", "commit", "data-line"}

Reading == [pc |-> "read", ch |-> 0, id |-> "", token |-> ""]
Panicked == [pc |-> "panic", ch |-> 0, id |-> "", token |-> ""]

\* The process is running (a panic of the control loop ends every goroutine).
Alive == loop.pc # "panic"

\* stdin.Scan returns line; event and id are set from its fields.
Read(line) ==
    /\ loop.pc = "read"
    /\ event' = Event(line)
    /\ id' = Id(line)
    /\ nread' = nread + 1

\* The guard of main's default branch: sessions[id] != nil.
Known(line) == Id(line) \in DOMAIN sessions

\* Map ref is the headers of a goroutine that has not finished rspamdPost,
\* whose range over the map runs unsynchronized with the control loop.
Racing(ref) ==
    \E k \in DOMAIN scans : scans[k].pc = "post" /\ scans[k].headers = ref

\* s.control[k] = v: an assignment to an entry of a nil map panics.  A write
\* to a map a goroutine is ranging over is a data race: the range sees the
\* map before or after the write, or the runtime detects the concurrent
\* access and ends the process.
SetControl(sid, k, v) ==
    IF sessions[sid].control = 0
    THEN loop' = Panicked /\ UNCHANGED maps
    ELSE \/ /\ maps' = [maps EXCEPT ![sessions[sid].control] = Put(@, k, v)]
            /\ loop' = loop
         \/ /\ Racing(sessions[sid].control)
            /\ loop' = Panicked
            /\ UNCHANGED maps

Init ==
    /\ sessions = EmptyMap
    /\ maps = <<>>
    /\ scans = <<>>
    /\ loop = Reading
    /\ event = ""
    /\ id = ""
    /\ out = <<>>
    /\ nread = 0
    /\ agent = [last |-> <<>>, markers |-> 0, commits |-> 0, cur |-> <<>>,
                msgs |-> <<>>]

\* ------------------------------------------------- the control loop of main
\* case "link-disconnect": delete(sessions, id).
LinkDisconnect(line) ==
    /\ Read(line)
    /\ Event(line) = "link-disconnect"
    /\ sessions' = [x \in DOMAIN sessions \ {Id(line)} |-> sessions[x]]
    /\ UNCHANGED <<maps, scans, loop, out>>

\* The control map linkConnect leaves behind in a fresh session.
ConnectControl(args) ==
    LET rdns == Arg(args, 6)
        laddr == Arg(args, 8)
        m1 == Put(EmptyMap, "Pass", "all")
        m2 == IF SplitColonFirst(laddr) # "local"
              THEN Put(m1, "Ip", SplitColonFirst(laddr)) ELSE m1
    IN  IF rdns # "" THEN Put(m2, "Hostname", rdns) ELSE m2

\* case "link-connect": a new session object replaces any earlier one, and
\* falls through to the default branch, which calls linkConnect on it.
LinkConnect(line) ==
    /\ Read(line)
    /\ Event(line) = "link-connect"
    /\ Len(maps) < MaxConnects
    /\ maps' = Append(maps, ConnectControl(line))
    /\ sessions' = Put(sessions, Id(line),
                       [control |-> Len(maps) + 1, id |-> Id(line),
                        payload |-> <<>>, ch |-> 0])
    /\ UNCHANGED <<scans, loop, out>>

\* A default branch that makes the session it does not find.
DroppedCreates(line) ==
    /\ Read(line)
    /\ Event(line) \notin {"link-connect", "link-disconnect"}
    /\ ~Known(line)
    /\ sessions' = Put(sessions, Id(line),
                       [control |-> 0, id |-> Id(line),
                        payload |-> <<>>, ch |-> 0])
    /\ UNCHANGED <<maps, scans, loop, out>>

\* default, sessions[id] == nil: no handler is called.
Dropped(line) ==
    /\ Read(line)
    /\ Event(line) \notin {"link-connect", "link-disconnect"}
    /\ ~Known(line)
    /\ UNCHANGED <<sessions, maps, scans, loop, out>>

\* A default branch that checks the handler for nil and skips the call.
NoHandlerSkips(line) ==
    /\ Read(line)
    /\ Event(line) \notin Registered \cup {"link-disconnect"}
    /\ Known(line)
    /\ UNCHANGED <<sessions, maps, scans, loop, out>>

\* default, sessions[id] != nil and registry[event].fn == nil: the call of a
\* nil func panics.
NoHandler(line) ==
    /\ Read(line)
    /\ Event(line) \notin Registered \cup {"link-disconnect"}
    /\ Known(line)
    /\ loop' = Panicked
    /\ UNCHANGED <<sessions, maps, scans, out>>

LinkIdentify(line) ==
    /\ Read(line)
    /\ Event(line) = "link-identify"
    /\ Known(line)
    /\ SetControl(Id(line), "Helo", Arg(line, 6))
    /\ UNCHANGED <<sessions, scans, out>>

TxBegin(line) ==
    /\ Read(line)
    /\ Event(line) = "tx-begin"
    /\ Known(line)
    /\ SetControl(Id(line), "Queue-Id", Arg(line, 6))
    /\ UNCHANGED <<sessions, scans, out>>

TxMail(line) ==
    /\ Read(line)
    /\ Event(line) = "tx-mail"
    /\ Known(line)
    /\ LET mailFrom == Arg(line, 7)
           status == Arg(line, 8)
       IN  IF status = "ok"
           THEN SetControl(Id(line), "From", mailFrom)
           ELSE UNCHANGED <<maps, loop>>
    /\ UNCHANGED <<sessions, scans, out>>

TxRcpt(line) ==
    /\ Read(line)
    /\ Event(line) = "tx-rcpt"
    /\ Known(line)
    /\ LET rcptTo == Arg(line, 7)
           status == Arg(line, 8)
       IN  IF status = "ok"
           THEN SetControl(Id(line), "Rcpt", rcptTo)
           ELSE UNCHANGED <<maps, loop>>
    /\ UNCHANGED <<sessions, scans, out>>

\* s.control = nil when the status is "ok".
TxData(line) ==
    /\ Read(line)
    /\ Event(line) = "tx-data"
    /\ Known(line)
    /\ LET status == Arg(line, 7)
       IN  IF status = "ok"
           THEN sessions' = [sessions EXCEPT ![Id(line)].control = 0]
           ELSE UNCHANGED sessions
    /\ UNCHANGED <<maps, scans, loop, out>>

\* tx-commit and tx-rollback: s.control = nil.
TxCleanup(line) ==
    /\ Read(line)
    /\ Event(line) \in {"tx-commit", "tx-rollback"}
    /\ Known(line)
    /\ sessions' = [sessions EXCEPT ![Id(line)].control = 0]
    /\ UNCHANGED <<maps, scans, loop, out>>

\* line != ".": WriteString(line), WriteString("\n").  Otherwise dataOutput
\* makes a channel and starts the goroutine, with the control map s.control
\* refers to (not a copy), the token, s.id and the payload's text; s.ch
\* becomes the new channel.
FilterDataLine(line) ==
    /\ Read(line)
    /\ Event(line) = "data-line"
    /\ Known(line)
    /\ LET s == sessions[Id(line)]
           token == Arg(line, 6)
           text == Arg(line, 7)
       IN  IF text # "."
           THEN /\ Len(s.payload) < MaxPayload
                /\ sessions' = [sessions EXCEPT
                                  ![Id(line)].payload = Append(@, text)]
                /\ UNCHANGED scans
           ELSE /\ Len(scans) < MaxScans
                /\ scans' = Append(scans,
                                   [pc |-> "post", headers |-> s.control,
                                    token |-> token, id |-> s.id,
                                    data |-> s.payload, sent |-> EmptyMap,
                                    failed |-> FALSE, action |-> "",
                                    sig |-> "", todo |-> <<>>,
                                    reason |-> ""])
                /\ sessions' = [sessions EXCEPT ![Id(line)].ch = Len(scans) + 1]
    /\ UNCHANGED <<maps, loop, out>>

\* filterCommit up to reason := <-s.ch: the control loop blocks in the
\* receive (for ever when s.ch is nil).
FilterCommit(line) ==
    /\ Read(line)
    /\ Event(line) = "commit"
    /\ Known(line)
    /\ loop' = [pc |-> "wait", ch |-> sessions[Id(line)].ch,
                id |-> sessions[Id(line)].id, token |-> Arg(line, 6)]
    /\ UNCHANGED <<sessions, maps, scans, out>>

\* One line of stdout.
OutLine(kind, token, sid, content, k) ==
    [kind |-> kind, token |-> token, id |-> sid, content |-> content,
     scan |-> k]

\* The decision filterCommit prints for the reason received.
ResultContent(reason) ==
    IF reason # "" THEN <<"reject", reason>> ELSE <<"proceed">>

\* filterCommit without the return that follows the reject line.
CommitLinesNoReturn(token, sid, reason, k) ==
    IF reason # ""
    THEN <<OutLine("filter-result", token, sid, <<"reject", reason>>, k),
           OutLine("filter-result", token, sid, <<"proceed">>, k)>>
    ELSE <<OutLine("filter-result", token, sid, <<"proceed">>, k)>>

\* The lines filterCommit prints once it has received reason from channel k:
\* the reject line and return, or the proceed line.
CommitLines(token, sid, reason, k) ==
    <<OutLine("filter-result", token, sid, ResultContent(reason), k)>>

\* A receive that does not wait for the goroutine's prints (the verdict sent
\* before the lines, or through a buffered channel).
CommitRecvEarly ==
    /\ loop.pc = "wait"
    /\ loop.ch # 0
    /\ scans[loop.ch].pc \in {"write", "send"}
    /\ out' = out \o CommitLines(loop.token, loop.id, scans[loop.ch].reason,
                               loop.ch)
    /\ scans' = [scans EXCEPT ![loop.ch].pc = IF @ = "send" THEN "done" ELSE @]
    /\ loop' = Reading
    /\ UNCHANGED <<sessions, maps, event, id, nread, agent>>

\* The rendezvous on the unbuffered channel: goroutine k's send ch <- reason
\* meets filterCommit's receive, and filterCommit prints the filter-result.
CommitRecv ==
    /\ loop.pc = "wait"
    /\ loop.ch # 0
    /\ scans[loop.ch].pc = "send"
    /\ out' = out \o CommitLines(loop.token, loop.id, scans[loop.ch].reason,
                               loop.ch)
    /\ scans' = [scans EXCEPT ![loop.ch].pc = "done"]
    /\ loop' = Reading
    /\ UNCHANGED <<sessions, maps, event, id, nread, agent>>

\* ------------------------------------------------ the goroutine of dataOutput
\* An error path that sends the empty reason.
TempFailEmpty == ""

\* The reason the goroutine sends on an error.
TempFail == "421 Temporary failure"

ActionTags ==
    {"add header", "rewrite subject", "reject", "greylist", "soft reject",
     "", "no action"}

\* A decoded rspamdResponse.
Response(a, d) ==
    [Score |-> "7", RequiredScore |-> "5", Subject |-> "SPAM hi",
     Action |-> a, DKIMSig |-> d]

\* The responses of the scoring service: every action tag without a
\* signature, and a signature with the empty tag.
Responses == {Response(a, "") : a \in ActionTags} \cup {Response("", "sig")}

\* What rspamdPost returns: an error (NewRequest, client.Do or the JSON
\* decoder failed) or the decoded response.
PostOutcomes == {[err |-> TRUE]} \cup {[err |-> FALSE, resp |-> r] : r \in Responses}

\* The key and value textproto reads from a header line; <<>> for a line
\* without a colon.
ColonSplit(l) ==
    CASE l = HdrLine -> <<"Subject", "hi">>
      [] l = SigHdrLine -> <<"DKIM-Signature", "old">>
      [] OTHER -> <<>>

\* The index of the first empty line of the text, 0 when it has none.
FirstBlank(data) ==
    IF \E i \in DOMAIN data : data[i] = ""
    THEN CHOOSE i \in DOMAIN data :
             data[i] = "" /\ \A j \in 1..(i - 1) : data[j] # ""
    ELSE 0

HeaderLinesOf(data) ==
    IF FirstBlank(data) = 0 THEN data ELSE SubSeq(data, 1, FirstBlank(data) - 1)

\* mail.Header: each key with its values in the order read.
HeaderOf(hl) ==
    [k \in {ColonSplit(hl[i])[1] : i \in DOMAIN hl} |->
        LET sel == SelectSeq(hl, LAMBDA l : ColonSplit(l)[1] = k)
        IN  [i \in DOMAIN sel |-> <<ColonSplit(sel[i])[2]>>]]

\* mail.ReadMessage(strings.NewReader(data)).  A header line without a colon
\* is an error.  A text that ends before any empty line is an error when no
\* header was read; when some were, it is an error or a message with an empty
\* body, by the version of net/mail the program is built with.
ReadMessageOutcomes(data) ==
    LET hl == HeaderLinesOf(data)
        fb == FirstBlank(data)
        bad == \E i \in DOMAIN hl : ColonSplit(hl[i]) = <<>>
        msg == [err |-> FALSE, Header |-> HeaderOf(hl),
                Body |-> IF fb = 0 THEN <<>>
                         ELSE SubSeq(data, fb + 1, Len(data))]
    IN  IF bad \/ (fb = 0 /\ hl = <<>>) THEN {[err |-> TRUE]}
        ELSE IF fb = 0 THEN {[err |-> TRUE], msg}
        ELSE {msg}

\* The switch on resp.Action: the header after its mutation.
MutatedHeader(h, resp) ==
    CASE resp.Action = "add header" ->
             Put(Put(h, "X-Spam", << <<"yes">> >>), "X-Spam-Score",
                 << <<resp.Score, " / ", resp.RequiredScore>> >>)
      [] resp.Action = "rewrite subject" ->
             Put(h, "Subject", << <<resp.Subject>> >>)
      [] OTHER -> h

\* The switch without its greylist case.
RejectReasonNoGreylist(action) ==
    CASE action = "reject" -> "550 message rejected"
      [] action = "soft reject" -> "451 try again later"
      [] OTHER -> ""

\* The switch on resp.Action: rejectReason.
RejectReason(action) ==
    CASE action = "reject" -> "550 message rejected"
      [] action = "greylist" -> "421 greylisted"
      [] action = "soft reject" -> "451 try again later"
      [] OTHER -> ""

\* strings.Join(v, ",").
RECURSIVE JoinComma(_)
JoinComma(v) ==
    IF v = <<>> THEN <<>>
    ELSE IF Len(v) = 1 THEN v[1]
    ELSE v[1] \o <<",">> \o JoinComma(Tail(v))

\* The orders in which range may visit the keys of a map.
Orders(S) ==
    {f \in [1..Cardinality(S) -> S] : \A i, j \in DOMAIN f : f[i] = f[j] => i = j}

\* The token bufio.Scanner returns for a line of the body: bufio.ScanLines
\* drops a carriage return that ends the line.
ScanText(l) ==
    CASE l = CrLine -> BodyLine
      [] OTHER -> l

\* Prints that put the signature after the message's headers.
ReconstructSigLast(h, body, resp, ord) ==
    [i \in DOMAIN ord |-> <<ord[i], ": ">> \o JoinComma(h[ord[i]])]
    \o (IF resp.DKIMSig # ""
        THEN << <<"DKIM-Signature", ": ", resp.DKIMSig>> >> ELSE <<>>)
    \o << <<"">> >>
    \o [i \in DOMAIN body |-> <<ScanText(body[i])>>]
    \o << <<".">> >>

\* The contents of the filter-dataline lines the goroutine prints, in order:
\* the signature, the headers as range visits them, the separator, the body
\* lines bufio.Scanner returns, and the end marker.
Reconstruct(h, body, resp, ord) ==
    (IF resp.DKIMSig # ""
     THEN << <<"DKIM-Signature", ": ", resp.DKIMSig>> >> ELSE <<>>)
    \o [i \in DOMAIN ord |-> <<ord[i], ": ">> \o JoinComma(h[ord[i]])]
    \o << <<"">> >>
    \o [i \in DOMAIN body |-> <<ScanText(body[i])>>]
    \o << <<".">> >>

\* The headers rspamdPost adds to the request: the entries of the map.
RequestHeaders(ref) == IF ref = 0 THEN EmptyMap ELSE maps[ref]

\* rspamdPost, mail.ReadMessage and the switch.  On an error the goroutine
\* goes to its send of "421 Temporary failure"; otherwise to its prints.
ScanPost(k) ==
    /\ Alive
    /\ k \in DOMAIN scans
    /\ scans[k].pc = "post"
    /\ \E o \in PostOutcomes, m \in ReadMessageOutcomes(scans[k].data) :
        LET sc == [scans[k] EXCEPT !.sent = RequestHeaders(scans[k].headers)]
        IN  IF o.err \/ m.err
            THEN scans' = [scans EXCEPT ![k] =
                             [sc EXCEPT !.pc = "send", !.failed = TRUE,
                                        !.reason = TempFail]]
            ELSE \E ord \in Orders(DOMAIN MutatedHeader(m.Header, o.resp)) :
                    scans' = [scans EXCEPT ![k] =
                                [sc EXCEPT
                                   !.pc = "write",
                                   !.action = o.resp.Action,
                                   !.sig = o.resp.DKIMSig,
                                   !.reason = RejectReason(o.resp.Action),
                                   !.todo = Reconstruct(
                                       MutatedHeader(m.Header, o.resp),
                                       m.Body, o.resp, ord)]]
    /\ UNCHANGED <<sessions, maps, loop, event, id, out, nread, agent>>

\* A goroutine that prints the decision itself after its last line.
ScanWriteDecides(k) ==
    /\ Alive
    /\ k \in DOMAIN scans
    /\ scans[k].pc = "write"
    /\ out' = Append(out, OutLine("filter-dataline", scans[k].token,
                                  scans[k].id, Head(scans[k].todo), k))
              \o (IF Len(scans[k].todo) = 1
                  THEN CommitLines(scans[k].token, scans[k].id,
                                   scans[k].reason, k)
                  ELSE <<>>)
    /\ scans' = [scans EXCEPT ![k].todo = Tail(@),
                              ![k].pc = IF Len(scans[k].todo) = 1
                                        THEN "send" ELSE "write"]
    /\ UNCHANGED <<sessions, maps, loop, event, id, nread, agent>>

\* One stdout.Printf of a filter-dataline line; after the last one the
\* goroutine is at ch <- rejectReason.
ScanWrite(k) ==
    /\ Alive
    /\ k \in DOMAIN scans
    /\ scans[k].pc = "write"
    /\ out' = Append(out, OutLine("filter-dataline", scans[k].token,
                                  scans[k].id, Head(scans[k].todo), k))
    /\ scans' = [scans EXCEPT ![k].todo = Tail(@),
                              ![k].pc = IF Len(scans[k].todo) = 1
                                        THEN "send" ELSE "write"]
    /\ UNCHANGED <<sessions, maps, loop, event, id, nread, agent>>

\* ------------------------------------------------------------ specification
\* The mail agent writes any line at any time.
Host(line) == nread < MaxEvents /\ UNCHANGED agent

Next ==
    \/ \E line \in Lines : Host(line) /\ LinkConnect(line)
    \/ \E line \in Lines : Host(line) /\ LinkDisconnect(line)
    \/ \E line \in Lines : Host(line) /\ LinkIdentify(line)
    \/ \E line \in Lines : Host(line) /\ TxBegin(line)
    \/ \E line \in Lines : Host(line) /\ TxMail(line)
    \/ \E line \in Lines : Host(line) /\ TxRcpt(line)
    \/ \E line \in Lines : Host(line) /\ TxData(line)
    \/ \E line \in Lines : Host(line) /\ TxCleanup(line)
    \/ \E line \in Lines : Host(line) /\ FilterDataLine(line)
    \/ \E line \in Lines : Host(line) /\ FilterCommit(line)
    \/ \E line \in Lines : Host(line) /\ NoHandler(line)
    \/ \E line \in Lines : Host(line) /\ Dropped(line)
    \/ CommitRecv
    \/ \E k \in DOMAIN scans : ScanPost(k)
    \/ \E k \in DOMAIN scans : ScanWrite(k)

Spec == Init /\ [][Next]_vars

\* The mail agent follows the SMTP dialogue of one session: connect,
\* identify, transaction-begin, mail-from ok, recipient-to ok, data-begin ok,
\* the message's lines, the end marker, commit, transaction-commit, and then
\* the next transaction or the disconnect, which ends the dialogue.
Dialogue == "s1"

Follows(last, line) ==
    LET prev == IF last = <<>> THEN "" ELSE Event(last)
        e == Event(line)
    IN  /\ Id(line) = Dialogue
        /\ CASE prev = "" -> e = "link-connect"
             [] prev = "link-connect" -> e = "link-identify"
             [] prev = "link-identify" -> e = "tx-begin"
             [] prev = "tx-begin" -> e = "tx-mail" /\ Arg(line, 8) = "ok"
             [] prev = "tx-mail" -> e = "tx-rcpt" /\ Arg(line, 8) = "ok"
             [] prev = "tx-rcpt" -> e = "tx-data" /\ Arg(line, 7) = "ok"
             [] prev = "tx-data" -> e = "data-line"
             [] prev = "data-line" ->
                    IF Arg(last, 7) = Marker THEN e = "commit" ELSE e = "data-line"
             [] prev = "commit" -> e = "tx-commit"
             [] prev = "tx-commit" -> e \in {"tx-begin", "link-disconnect"}
             [] OTHER -> FALSE

IsMarker(line) == Event(line) = "data-line" /\ Arg(line, 7) = Marker

\* The message line a data-line carries: everything after the token field,
\* the delimiters it contains included.
WholeContent(line) ==
    CASE SubSeq(line, 8, Len(line)) = <<CrLine, "b">> -> "body\r|b"
      [] OTHER -> Arg(line, 7)

Ordered(line) ==
    /\ Follows(agent.last, line)
    /\ agent' = [last |-> line,
                 markers |-> agent.markers + (IF IsMarker(line) THEN 1 ELSE 0),
                 commits |-> agent.commits
                             + (IF Event(line) = "commit" THEN 1 ELSE 0),
                 cur |-> IF Event(line) # "data-line" THEN agent.cur
                         ELSE IF IsMarker(line) THEN <<>>
                         ELSE Append(agent.cur, WholeContent(line)),
                 msgs |-> IF IsMarker(line) THEN Append(agent.msgs, agent.cur)
                          ELSE agent.msgs]

NextOrdered ==
    \/ \E line \in Lines : Ordered(line) /\ LinkConnect(line)
    \/ \E line \in Lines : Ordered(line) /\ LinkDisconnect(line)
    \/ \E line \in Lines : Ordered(line) /\ LinkIdentify(line)
    \/ \E line \in Lines : Ordered(line) /\ TxBegin(line)
    \/ \E line \in Lines : Ordered(line) /\ TxMail(line)
    \/ \E line \in Lines : Ordered(line) /\ TxRcpt(line)
    \/ \E line \in Lines : Ordered(line) /\ TxData(line)
    \/ \E line \in Lines : Ordered(line) /\ TxCleanup(line)
    \/ \E line \in Lines : Ordered(line) /\ FilterDataLine(line)
    \/ \E line \in Lines : Ordered(line) /\ FilterCommit(line)
    \/ CommitRecv
    \/ \E k \in DOMAIN scans : ScanPost(k)
    \/ \E k \in DOMAIN scans : ScanWrite(k)

\* Every goroutine that can take a step takes one (the scoring service
\* answers or the call fails), and a receive whose sender is ready completes.
Fairness ==
    /\ WF_vars(CommitRecv)
    /\ \A k \in 1..MaxScans : WF_vars(ScanPost(k)) /\ WF_vars(ScanWrite(k))

OrderedSpec == Init /\ [][NextOrdered]_vars /\ Fairness

\* ------------------------------------------------------------------ claims
\* The indices of the filter-result lines of stdout.
Results == {i \in DOMAIN out : out[i].kind = "filter-result"}
\* The indices of the filter-dataline lines goroutine k has printed.
DataLinesOf(k) ==
    {i \in DOMAIN out : out[i].kind = "filter-dataline" /\ out[i].scan = k}

\* C1: when the mail agent follows the SMTP dialogue of a session, there are
\* always exactly as many scans dispatched as end markers read, never more
\* filter-result lines than commits read, and once the commit of the n-th
\* message has been read the n-th filter-result line is eventually printed.
C1_OneScanOneDecision ==
    /\ [](Len(scans) = agent.markers)
    /\ [](Cardinality(Results) <= agent.commits)
    /\ \A n \in 1..MaxScans :
          (agent.commits = n) ~> (Cardinality(Results) = n)

\* C1's case: the marker and the commit of a message have been read and its
\* one decision is printed.
C1_Witness ==
    /\ agent.markers = 1
    /\ agent.commits = 1
    /\ Len(scans) = 1
    /\ Cardinality(Results) = 1
    /\ loop.pc = "read"

\* C2 (as claimed): while the control loop has read the commit of a session
\* whose scan has not resolved, it can still read a line of another session.
C2_OtherSessionsProgress ==
    \A line \in Lines :
        (/\ loop.pc = "wait"
         /\ loop.ch # 0
         /\ scans[loop.ch].pc \in {"post", "write"}
         /\ Id(line) # loop.id)
        => ENABLED Read(line)

\* C3 (as claimed): the request of every scan dispatched in the SMTP dialogue
\* carries the Helo, Queue-Id, From and Rcpt recorded by the metadata events.
C3_ScanCarriesMetadata ==
    \A k \in DOMAIN scans :
        scans[k].pc # "post" =>
            /\ {"Helo", "Queue-Id", "From", "Rcpt"} \subseteq DOMAIN scans[k].sent
            /\ scans[k].sent["Helo"] = "mx.example"
            /\ scans[k].sent["Queue-Id"] = "Q1"
            /\ scans[k].sent["From"] = "a@x"
            /\ scans[k].sent["Rcpt"] = "b@y"

\* C4 (as claimed): a metadata event read for a live session, in whatever
\* transaction of the session, does not end the process, and identify and
\* transaction-begin leave their value recorded in the session's metadata.
C4_MetadataRecordedAgain ==
    (/\ event \in {"link-identify", "tx-begin", "tx-mail", "tx-rcpt"}
     /\ id \in DOMAIN sessions)
    => /\ Alive
       /\ event \in {"link-identify", "tx-begin"} =>
             /\ sessions[id].control # 0
             /\ (IF event = "link-identify" THEN "Helo" ELSE "Queue-Id")
                    \in DOMAIN maps[sessions[id].control]

\* C5 (as claimed): the step that dispatches a scan for a session (the
\* session's channel changes) leaves the session's payload empty, so that
\* the next text handed to a scan holds only lines read after it.
C5_PayloadResetAtDispatch ==
    [][\A s \in DOMAIN sessions \cap DOMAIN sessions' :
          sessions'[s].ch # sessions[s].ch => sessions'[s].payload = <<>>]_vars

\* C6: on stdout, the filter-result line printed for the verdict of scan k
\* comes after every filter-dataline line of scan k, and by then scan k has
\* no line left to print.
C6_BodyThenDecision ==
    \A i \in Results :
        /\ \A j \in DataLinesOf(out[i].scan) : j < i
        /\ scans[out[i].scan].pc = "done"
        /\ scans[out[i].scan].todo = <<>>

\* C6's case: a decision is printed for a scan that printed a header line,
\* the separator and the end marker before it.
C6_Witness ==
    \E i \in Results :
        /\ Cardinality(DataLinesOf(out[i].scan)) >= 3
        /\ \E j \in DataLinesOf(out[i].scan) : out[j].content = <<".">>

\* C7 (as claimed): whenever the control loop waits in the commit handler,
\* the session has a dispatched scan whose verdict has not been consumed.
C7_WaitHasPendingVerdict ==
    loop.pc = "wait" => loop.ch # 0 /\ scans[loop.ch].pc # "done"

\* C8: the decision printed for the verdict of a scan that failed (the
\* scoring call or the split of the text returned an error) is the reject
\* with the temporary-failure reason; and the step in which a scan fails
\* changes nothing but that scan: not the process, the sessions, the other
\* scans or stdout.
C8_FailureIsTempFail ==
    /\ [](\A i \in Results :
             scans[out[i].scan].failed =>
                 out[i].content = <<"reject", "421 Temporary failure">>)
    /\ [][\A k \in DOMAIN scans :
             (~scans[k].failed /\ scans'[k].failed) =>
                 /\ scans'[k].reason = "421 Temporary failure"
                 /\ \A j \in DOMAIN scans \ {k} : scans'[j] = scans[j]
                 /\ UNCHANGED <<sessions, maps, loop, out>>]_vars

\* C8's case: a decision is printed for a scan that failed.
C8_Witness ==
    \E i \in Results :
        /\ scans[out[i].scan].failed
        /\ out[i].content = <<"reject", "421 Temporary failure">>
        /\ Alive

\* The decision the claim gives for an action tag.
C9_Expected(tag) ==
    CASE tag = "reject" -> <<"reject", "550 message rejected">>
      [] tag = "greylist" -> <<"reject", "421 greylisted">>
      [] tag = "soft reject" -> <<"reject", "451 try again later">>
      [] OTHER -> <<"proceed">>

\* C9: the decision printed for the verdict of a scan that succeeded is the
\* one of its action tag: reject, greylist and soft reject give a reject with
\* their reason, every other tag gives proceed.
C9_DecisionByActionTag ==
    \A i \in Results :
        ~scans[out[i].scan].failed =>
            out[i].content = C9_Expected(scans[out[i].scan].action)

\* C9's case: a greylist verdict has been turned into its reject decision.
C9_Witness ==
    \E i \in Results :
        /\ ~scans[out[i].scan].failed
        /\ scans[out[i].scan].action = "greylist"
        /\ out[i].content = <<"reject", "421 greylisted">>

\* C10: a step that reads a line whose event is not connect and whose
\* session is not in the registry changes neither the registry, the control
\* maps, the scans nor stdout, and leaves the control loop reading.
C10_UnknownSessionDropped ==
    [][(/\ nread' = nread + 1
        /\ event' # "link-connect"
        /\ id' \notin DOMAIN sessions)
       => /\ UNCHANGED <<sessions, maps, scans, out>>
          /\ loop' = Reading]_vars

\* C10's case: a session was connected and disconnected, and a commit for a
\* session that is not in the registry has been read.
C10_Witness ==
    /\ event = "commit"
    /\ id \notin DOMAIN sessions
    /\ Len(maps) = 1
    /\ DOMAIN sessions = {}
    /\ out = <<>>
    /\ loop = Reading

\* C11 (as claimed): once a line whose event name has no entry in the
\* registered event table has been read, the process has ended, whether or
\* not the line's session is in the registry.
C11_UnregisteredEventFatal ==
    event \notin Registered \cup {"", "link-disconnect"} => ~Alive

\* C11 (amended): once a line whose event name has no entry in the registered
\* event table has been read, the process has ended when the line's session
\* is in the registry, and the control loop is reading the next line when it
\* is not.
C11_UnregisteredEventFatalIfLive ==
    event \notin Registered \cup {"", "link-disconnect"} =>
        IF id \in DOMAIN sessions THEN loop = Panicked ELSE loop = Reading

\* C11's case: a line with an unregistered event name was read for a session
\* of the registry, and the process has ended.
C11_Witness ==
    /\ event = "tx-envelope"
    /\ id \in DOMAIN sessions
    /\ nread >= 2
    /\ ~Alive

\* C12 (as claimed): every scan dispatched has its verdict read by the commit
\* handler exactly once, so a session lets go of a pending verdict (its
\* channel is replaced, or the session leaves the registry or is replaced)
\* only after the verdict has been consumed.
C12_VerdictReadOnce ==
    [][\A s \in DOMAIN sessions :
          (/\ sessions[s].ch # 0
           /\ \/ s \notin DOMAIN sessions'
              \/ sessions'[s].ch # sessions[s].ch)
          => scans[sessions[s].ch].pc = "done"]_vars

\* The scans of session s whose verdict no commit has consumed.
InFlight(s) == {k \in DOMAIN scans : scans[k].id = s /\ scans[k].pc # "done"}

\* C13 (as claimed): a session never has more than one dispatched scan whose
\* verdict has not been consumed, and no step appends a line to the payload
\* of a session while its scan is outstanding.
C13_OneScanInFlight ==
    /\ [](\A s \in SessionIds : Cardinality(InFlight(s)) <= 1)
    /\ [][\A s \in DOMAIN sessions \cap DOMAIN sessions' :
             (sessions[s].ch # 0 /\ scans[sessions[s].ch].pc # "done")
             => Len(sessions'[s].payload) <= Len(sessions[s].payload)]_vars

\* C14 (as claimed): from the dispatch of a scan until its verdict is
\* consumed, no step writes the control map the scan was handed, and no step
\* writes the payload of the session that waits for the scan.
C14_NoWriteAfterDispatch ==
    [][\A k \in DOMAIN scans :
          scans[k].pc # "done" =>
              /\ scans[k].headers # 0 =>
                     maps'[scans[k].headers] = maps[scans[k].headers]
              /\ \A s \in DOMAIN sessions \cap DOMAIN sessions' :
                     (sessions[s].ch = k /\ sessions'[s].ch = k) =>
                         sessions'[s].payload = sessions[s].payload]_vars

\* The contents of the filter-dataline lines goroutine k has printed, in the
\* order of stdout.
Emitted(k) ==
    LET sel == SelectSeq(out, LAMBDA l : l.kind = "filter-dataline" /\ l.scan = k)
    IN  [i \in DOMAIN sel |-> sel[i].content]

\* The lines of seq after its first empty line.
AfterSeparator(seq) ==
    LET blank == {i \in DOMAIN seq : seq[i] = <<"">>}
    IN  IF blank = {} THEN <<>>
        ELSE SubSeq(seq, (CHOOSE i \in blank : \A j \in blank : i <= j) + 1,
                    Len(seq))

\* The body lines L1..Ln of a message text: the lines after its first empty
\* line.
BodyLinesOf(data) ==
    IF FirstBlank(data) = 0 THEN <<>>
    ELSE SubSeq(data, FirstBlank(data) + 1, Len(data))

\* C15 (as claimed): when the scan of the k-th message the mail agent wrote
\* has succeeded with a verdict that mutates no header and has printed all
\* its lines, the lines it printed after the blank separator are the body
\* lines of that message, each verbatim and in order, followed by the end
\* marker.
C15_BodyRoundTrip ==
    \A k \in DOMAIN scans :
        (/\ scans[k].pc \in {"send", "done"}
         /\ ~scans[k].failed
         /\ scans[k].action \notin {"add header", "rewrite subject"})
        => AfterSeparator(Emitted(k))
             = [i \in DOMAIN BodyLinesOf(agent.msgs[k]) |->
                   <<BodyLinesOf(agent.msgs[k])[i]>>] \o << <<".">> >>

\* C16: when the verdict of a scan carries a signature, the first line the
\* scan prints is the signature header with that value, whatever headers the
\* message has, and the scan has printed it by the time it delivers its
\* verdict.
C16_SignatureFirst ==
    \A k \in DOMAIN scans :
        scans[k].sig # "" =>
            /\ Emitted(k) # <<>> =>
                   Emitted(k)[1] = <<"DKIM-Signature", ": ", scans[k].sig>>
            /\ scans[k].pc \in {"send", "done"} => Emitted(k) # <<>>

\* C16's case: a message that has a signature header of its own was scanned,
\* the verdict carries a signature, and the scan printed the verdict's
\* signature first and the message's own signature header after it.
C16_Witness ==
    \E k \in DOMAIN scans :
        /\ scans[k].sig = "sig"
        /\ SigHdrLine \in {scans[k].data[i] : i \in DOMAIN scans[k].data}
        /\ scans[k].pc = "done"
        /\ Emitted(k)[1] = <<"DKIM-Signature", ": ", "sig">>
        /\ \E i \in 2..Len(Emitted(k)) :
               Emitted(k)[i] = <<"DKIM-Signature", ": ", "old">>

\* C20 (as claimed): once a data-line whose content is not the lone end
\* marker has been read, the last line of the session's payload is the whole
\* content of that line, the delimiters it contains included.
C20_WholeContentAppended ==
    (/\ agent.last # <<>>
     /\ Event(agent.last) = "data-line"
     /\ WholeContent(agent.last) # Marker)
    => /\ Dialogue \in DOMAIN sessions
       /\ sessions[Dialogue].payload # <<>>
       /\ sessions[Dialogue].payload[Len(sessions[Dialogue].payload)]
              = WholeContent(agent.last)

\* C17: a step of scan task k (the task's record changes while the control
\* loop stays where it is) changes neither the registry, the control maps,
\* the other scans nor what the control loop has read, and writes nothing to
\* stdout or one filter-dataline line of its own; and every step that writes
\* a filter-result line is the commit handler's, taken from its wait.
C17_ScanTaskFrame ==
    [][/\ \A k \in DOMAIN scans :
             (scans'[k] # scans[k] /\ loop' = loop) =>
                 /\ UNCHANGED <<sessions, maps, event, id, nread>>
                 /\ \A j \in DOMAIN scans \ {k} : scans'[j] = scans[j]
                 /\ \/ out' = out
                    \/ /\ Len(out') = Len(out) + 1
                       /\ SubSeq(out', 1, Len(out)) = out
                       /\ out'[Len(out')].kind = "filter-dataline"
                       /\ out'[Len(out')].scan = k
       /\ (\E i \in DOMAIN out' \ DOMAIN out : out'[i].kind = "filter-result")
              => loop.pc = "wait" /\ loop' = Reading]_vars

\* C17's case: a scan task of a live session has printed all its lines and
\* waits to deliver its verdict, no decision line has been written, and the
\* session is in the registry as it was.
C17_Witness ==
    \E k \in DOMAIN scans :
        /\ scans[k].pc = "send"
        /\ ~scans[k].failed
        /\ Len(Emitted(k)) >= 2
        /\ Results = {}
        /\ scans[k].id \in DOMAIN sessions
        /\ sessions[scans[k].id].ch = k

\* C18 (as claimed): no scan task stays blocked for ever in the send of its
\* verdict: while the process runs, a task that is at its send has a receiver
\* left, that is, its channel is the one a session of the registry holds or
\* the one the commit handler waits on (no step ever gives a session or the
\* commit handler the channel of an earlier scan again).
C18_NoTaskStuck ==
    Alive =>
        \A k \in DOMAIN scans :
            scans[k].pc = "send" =>
                \/ \E s \in DOMAIN sessions : sessions[s].ch = k
                \/ loop.pc = "wait" /\ loop.ch = k

\* C19 (as claimed): every line written to stdout bears the identifier of a
\* session that is in the registry, so that none is written for a session
\* whose disconnect has been processed.
C19_NoOutputAfterDisconnect ==
    [][\A i \in DOMAIN out' \ DOMAIN out : out'[i].id \in DOMAIN sessions']_vars

====
